---- MODULE Spec2Model ----
(***************************************************************************)
(* Model of nightfall-optimist/src/services/transaction-checker.mjs: the   *)
(* four checks that checkTransaction runs under Promise.all before a       *)
(* transaction may enter a block.                                          *)
(*                                                                         *)
(* A 32-byte value (the hex strings of the source) is the pair             *)
(* <<top, low>>: its most-significant byte and the number held by its low  *)
(* 31 bytes.  ZERO is the config's all-zero 32-byte string.                *)
(***************************************************************************)
EXTENDS Integers, Sequences, FiniteSets, TLC

\* ------------------------------------------------------------- bounds
\* Block numbers of the model are 0..MaxBlock.
MaxBlock == 1
\* Calls of checkTransaction made one after the other on the same transaction.
MaxCalls == 2
\* Declared transaction types of the model are 0..MaxTxType (0..3 are known).
MaxTxType == 4
\* Fields of a template replaced at once in the inputs of the type check.
MaxFaults == 2

\* ------------------------------------------------- program constants
NumCommitments == 2
NumNullifiers == 2
NumSecrets == 8
HashMismatchCode == 0
TypeInconsistentCode == 1
UnknownTypeCode == 2
HistoricRootCode == 3
ProofInvalidCode == 5
\* The two arguments of every hex(32, 31) call.
WordBytes == 32
TruncatedBytes == 31

\* ------------------------------------------------------------- values
ZERO == <<0, 0>>
\* What JavaScript yields for an index past the end of an array.
Undefined == <<>>
\* The 32-byte value of a small number: top byte 0.
W(n) == <<0, n>>

\* array[i] of the source, i counted from 0.
At(s, i) == IF i + 1 <= Len(s) THEN s[i + 1] ELSE Undefined

\* general-number's hex(byteLength, butTruncateValueToByteLength): the number
\* held by the last butTruncateValueToByteLength bytes of the value, written
\* on byteLength bytes.  The top byte survives only if nothing is cut; a
\* number of the model is below 256^4, so cutting it to four bytes or more
\* leaves it as it is.
Hex(w, byteLength, butTruncateValueToByteLength) ==
    <<IF butTruncateValueToByteLength >= byteLength THEN w[1] ELSE 0,
      IF butTruncateValueToByteLength >= 4
      THEN w[2]
      ELSE w[2] % (256 ^ butTruncateValueToByteLength)>>

\* generalise(x).hex(32, 31)
Truncate(w) == IF w = Undefined THEN Undefined ELSE Hex(w, WordBytes, TruncatedBytes)

\* Number(x) === 0 for a 32-byte hex string x.
IsNumberZero(w) == w[1] = 0 /\ w[2] = 0

NoError == [name |-> "none", code |-> -1, message |-> ""]
TransactionError(message, code) ==
    [name |-> "TransactionError", code |-> code, message |-> message]
\* What a rejected external call (axios, web3) throws: no TransactionError.
TransportError(what) == [name |-> "Error", code |-> -1, message |-> what]
\* generalise(undefined) throws a plain Error.
UndefinedInputError == [name |-> "Error", code |-> -1, message |-> "undefined input"]

\* ------------------------------------------------ checkTransactionHash
\* Transaction.checkHash: the hash recomputed over every field but the hash
\* itself; a collision-free hash is the tuple of what it hashes.
CalcHash(t) ==
    <<t.transactionType, t.tokenType, t.value, t.tokenId, t.ercAddress,
      t.recipientAddress, t.publicInputHash, t.commitments, t.nullifiers,
      t.compressedSecrets, t.proof, t.historicRootBlockNumberL2, t.fee>>

CheckHash(t) == t.transactionHash = CalcHash(t)

checkTransactionHash(t) ==
    IF ~CheckHash(t)
    THEN TransactionError("The transaction hash did not match the transaction data",
                          HashMismatchCode)
    ELSE NoError

\* ------------------------------------------------ checkTransactionType
AllZero(s) == \A i \in 1..Len(s) : s[i] = ZERO
SomeZero(s) == \E i \in 1..Len(s) : s[i] = ZERO
SomeNonZero(s) == \E i \in 1..Len(s) : s[i] # ZERO

\* The condition of "case 0", lines 44-61.
DepositInconsistent(t) ==
    \/ t.publicInputHash = ZERO
    \/ (t.tokenType # 0 /\ t.tokenId = ZERO /\ IsNumberZero(t.value))
    \/ t.ercAddress = ZERO
    \/ t.recipientAddress # ZERO
    \/ At(t.commitments, 0) = ZERO
    \/ At(t.commitments, 1) # ZERO
    \/ Len(t.commitments) # NumCommitments
    \/ SomeNonZero(t.nullifiers)
    \/ SomeNonZero(t.compressedSecrets)
    \/ Len(t.compressedSecrets) # NumSecrets
    \/ AllZero(t.proof)
    \/ t.historicRootBlockNumberL2[1] # 0
    \/ t.historicRootBlockNumberL2[2] # 0

\* The condition of "case 1", lines 68-83.
SingleTransferInconsistent(t) ==
    \/ t.publicInputHash = ZERO
    \/ t.tokenId # ZERO
    \/ ~IsNumberZero(t.value)
    \/ t.ercAddress = ZERO
    \/ t.recipientAddress # ZERO
    \/ At(t.commitments, 0) = ZERO
    \/ At(t.commitments, 1) # ZERO
    \/ Len(t.commitments) # NumCommitments
    \/ At(t.nullifiers, 0) = ZERO
    \/ At(t.nullifiers, 1) # ZERO
    \/ Len(t.nullifiers) # NumNullifiers
    \/ AllZero(t.compressedSecrets)
    \/ Len(t.compressedSecrets) # NumSecrets
    \/ AllZero(t.proof)

\* The condition of "case 2", lines 90-103.
DoubleTransferInconsistent(t) ==
    \/ t.publicInputHash = ZERO
    \/ t.tokenId # ZERO
    \/ ~IsNumberZero(t.value)
    \/ t.ercAddress = ZERO
    \/ t.recipientAddress # ZERO
    \/ SomeZero(t.commitments)
    \/ Len(t.commitments) # NumCommitments
    \/ SomeZero(t.nullifiers)
    \/ Len(t.nullifiers) # NumNullifiers
    \/ AllZero(t.compressedSecrets)
    \/ Len(t.compressedSecrets) # NumSecrets
    \/ AllZero(t.proof)

\* The condition of "case 3", lines 110-123.
WithdrawInconsistent(t) ==
    \/ t.publicInputHash = ZERO
    \/ (t.tokenType # 0 /\ t.tokenId = ZERO /\ IsNumberZero(t.value))
    \/ t.ercAddress = ZERO
    \/ t.recipientAddress = ZERO
    \/ SomeNonZero(t.commitments)
    \/ At(t.nullifiers, 0) = ZERO
    \/ At(t.nullifiers, 1) # ZERO
    \/ Len(t.nullifiers) # NumNullifiers
    \/ SomeNonZero(t.compressedSecrets)
    \/ AllZero(t.proof)

TypeInconsistent(type) ==
    TransactionError(
        CASE type = 0 -> "The data provided was inconsistent with a transaction type of DEPOSIT"
          [] type = 1 -> "The data provided was inconsistent with a transaction type of SINGLE_TRANSFER"
          [] type = 2 -> "The data provided was inconsistent with a transaction type of DOUBLE_TRANSFER"
          [] OTHER -> "The data provided was inconsistent with a transaction type of WITHDRAW",
        TypeInconsistentCode)

TypeCheckNoDefault(t) ==
    CASE t.transactionType = 0 ->
           IF DepositInconsistent(t) THEN TypeInconsistent(0) ELSE NoError
      [] t.transactionType = 1 ->
           IF SingleTransferInconsistent(t) THEN TypeInconsistent(1) ELSE NoError
      [] t.transactionType = 2 ->
           IF DoubleTransferInconsistent(t) THEN TypeInconsistent(2) ELSE NoError
      [] t.transactionType = 3 ->
           IF WithdrawInconsistent(t) THEN TypeInconsistent(3) ELSE NoError
      [] OTHER -> NoError
checkTransactionType(t) ==
    CASE t.transactionType = 0 ->
           IF DepositInconsistent(t) THEN TypeInconsistent(0) ELSE NoError
      [] t.transactionType = 1 ->
           IF SingleTransferInconsistent(t) THEN TypeInconsistent(1) ELSE NoError
      [] t.transactionType = 2 ->
           IF DoubleTransferInconsistent(t) THEN TypeInconsistent(2) ELSE NoError
      [] t.transactionType = 3 ->
           IF WithdrawInconsistent(t) THEN TypeInconsistent(3) ELSE NoError
      [] OTHER -> TransactionError("Unknown transaction type", UnknownTypeCode)

\* ------------------------------------------------------ public inputs
\* array.map(x => generalise(x).hex(32, 31))
TruncateAll(s) == [i \in 1..Len(s) |-> Truncate(s[i])]

\* PublicInputs(array).publicInputs: the array with every nested array
\* spliced in place. An entry of the array is a sequence here: <<v>> for the
\* value v, the array itself for a nested array.
RECURSIVE Flat(_)
Flat(items) == IF items = <<>> THEN <<>> ELSE Head(items) \o Flat(Tail(items))
Item(v) == <<v>>
\* ...array: each element an entry of its own.
Spread(s) == [i \in 1..Len(s) |-> Item(s[i])]

\* The arrays handed to "new PublicInputs", lines 171-210.
DepositInputs(t) ==
    <<Item(t.ercAddress), Item(t.tokenId), Item(t.value), Item(At(t.commitments, 0))>>

SingleTransferInputs(t, rootFirst) ==
    <<Item(t.ercAddress),
      Item(At(t.commitments, 0)),
      Item(Truncate(At(t.nullifiers, 0))),
      Item(rootFirst)>>
      \o Spread(TruncateAll(t.compressedSecrets))

DoubleTransferInputsOnce(t, rootFirst, rootSecond) ==
    <<Item(t.ercAddress),
      t.commitments,
      TruncateAll(t.nullifiers),
      Item(rootFirst),
      Item(rootSecond)>>
      \o Spread(TruncateAll(t.compressedSecrets))
DoubleTransferInputs(t, rootFirst, rootSecond) ==
    <<Item(t.ercAddress),
      Item(t.ercAddress),
      t.commitments,
      TruncateAll(t.nullifiers),
      Item(rootFirst),
      Item(rootSecond)>>
      \o Spread(TruncateAll(t.compressedSecrets))

WithdrawInputsTokenIdTruncated(t, rootFirst) ==
    <<Item(t.ercAddress),
      Item(Truncate(t.tokenId)),
      Item(t.value),
      Item(Truncate(At(t.nullifiers, 0))),
      Item(t.recipientAddress),
      Item(rootFirst)>>
WithdrawInputs(t, rootFirst) ==
    <<Item(t.ercAddress),
      Item(t.tokenId),
      Item(t.value),
      Item(Truncate(At(t.nullifiers, 0))),
      Item(t.recipientAddress),
      Item(rootFirst)>>

\* The switch of verifyProof, lines 169-214; <<>> where it throws instead.
PublicInputs(t, rootFirst, rootSecond) ==
    CASE t.transactionType = 0 -> Flat(DepositInputs(t))
      [] t.transactionType = 1 -> Flat(SingleTransferInputs(t, rootFirst))
      [] t.transactionType = 2 -> Flat(DoubleTransferInputs(t, rootFirst, rootSecond))
      [] t.transactionType = 3 -> Flat(WithdrawInputs(t, rootFirst))
      [] OTHER -> <<>>

\* generalise throws on an undefined element.
HasUndefined(s) == \E i \in 1..Len(s) : s[i] = Undefined

\* -------------------------------------------------------- transactions
\* One transaction of each type that fits its template, with a value of its
\* own in every populated slot.
Secrets(n) == [i \in 1..n |-> <<i, 10 + i>>]
Zeros(n) == [i \in 1..n |-> ZERO]

Template(type) ==
    [transactionType |-> type,
     fee |-> 1,
     tokenType |-> 0,
     value |-> IF type \in {0, 3} THEN W(5) ELSE ZERO,
     tokenId |-> IF type \in {0, 3} THEN W(3) ELSE ZERO,
     ercAddress |-> W(1),
     recipientAddress |-> IF type = 3 THEN W(6) ELSE ZERO,
     publicInputHash |-> W(7),
     commitments |-> CASE type = 0 -> <<W(2), ZERO>>
                       [] type = 1 -> <<<<17, 2>>, ZERO>>
                       [] type = 2 -> <<<<17, 2>>, <<18, 4>>>>
                       [] OTHER -> <<ZERO, ZERO>>,
     nullifiers |-> CASE type = 0 -> <<ZERO, ZERO>>
                      [] type = 2 -> <<<<171, 8>>, <<205, 9>>>>
                      [] OTHER -> <<<<171, 8>>, ZERO>>,
     compressedSecrets |-> IF type \in {1, 2} THEN Secrets(NumSecrets)
                           ELSE Zeros(NumSecrets),
     proof |-> <<W(20), W(21)>>,
     historicRootBlockNumberL2 |-> IF type = 0 THEN <<0, 0>> ELSE <<0, 1>>]

\* Arrays of 0..n slots, each slot ZERO or the value of its place in vals.
Slots(vals, n) ==
    UNION {{[i \in 1..k |-> IF i \in on THEN vals[i] ELSE ZERO] : on \in SUBSET (1..k)}
             : k \in 0..n}

\* The values a field is replaced by.
Alternatives(field) ==
    CASE field = "transactionType" -> 0..MaxTxType
      [] field = "tokenType" -> {0, 1}
      [] field = "value" -> {ZERO, W(5), <<35, 5>>}
      [] field = "tokenId" -> {ZERO, W(3), <<34, 3>>}
      [] field = "ercAddress" -> {ZERO, W(1), <<33, 1>>}
      [] field = "recipientAddress" -> {ZERO, W(6), <<36, 6>>}
      [] field = "publicInputHash" -> {ZERO, W(7)}
      [] field = "commitments" ->
           Slots(<<<<17, 2>>, <<18, 4>>, <<19, 6>>>>, NumCommitments + 1)
      [] field = "nullifiers" ->
           Slots(<<<<171, 8>>, <<205, 9>>, <<239, 10>>>>, NumNullifiers + 1)
      [] field = "compressedSecrets" ->
           UNION {{Zeros(n), Secrets(n), [Zeros(n) EXCEPT ![n] = <<n, 10 + n>>]}
                    : n \in (NumSecrets - 1)..(NumSecrets + 1)}
      [] field = "proof" -> {<<>>, <<ZERO, ZERO>>, <<ZERO, W(21)>>}
      [] OTHER -> (0..MaxBlock) \X (0..MaxBlock)

Fields ==
    {"transactionType", "tokenType", "value", "tokenId", "ercAddress",
     "recipientAddress", "publicInputHash", "commitments", "nullifiers",
     "compressedSecrets", "proof", "historicRootBlockNumberL2"}

OneFault(t) == UNION {{[t EXCEPT ![f] = v] : v \in Alternatives(f)} : f \in Fields}

RECURSIVE WithFaults(_, _)
WithFaults(ts, n) ==
    IF n = 0 THEN ts ELSE WithFaults(ts \cup UNION {OneFault(t) : t \in ts}, n - 1)

Templates == {Template(type) : type \in 0..3}

\* The stored hash: computed over the fields as they are, or computed before
\* the fee was changed.
Stamp(t, fresh) ==
    t @@ [transactionHash |-> IF fresh THEN CalcHash(t)
                              ELSE CalcHash([t EXCEPT !.fee = t.fee + 1])]

\* The root of the block with number n, where the store holds one.
BlockRoot(n) == <<n + 1, 100 + n>>

\* ---------------------------------------------------------------- state
VARIABLES
    tx,        \* the transaction under validation; never modified
    store,     \* the block numbers getBlockByBlockNumberL2 finds a block for
    keyReadable, \* whether getVerificationKey(...).call() answers
    verifier,  \* what the POST to the worker yields: "true", "false", "unreachable"
    call,      \* the number of calls of checkTransaction made so far
    promise,   \* the promise of each check of the current call
    outcome,   \* outcome[k]: the promise checkTransaction returned to call k
    failed,    \* the checks of the current call that rejected, in order of time
    hr,        \* checkHistoricRoot: the state of its two lookups
    vp,        \* verifyProof: its position, its two roots, the inputs it posted
    io         \* external requests made by the current call

vars == <<tx, store, keyReadable, verifier, call, promise, outcome, failed, hr, vp, io>>

Checks == <<"hash", "type", "root", "proof">>
CheckSet == {Checks[i] : i \in 1..Len(Checks)}

Pending == [state |-> "pending", error |-> NoError]
Fulfilled == [state |-> "fulfilled", error |-> NoError]
Rejected(e) == [state |-> "rejected", error |-> e]
Idle == [state |-> "idle", error |-> NoError]
Settle(e) == IF e = NoError THEN Fulfilled ELSE Rejected(e)

IdleVp == [pc |-> "idle", rootFirst |-> ZERO, rootSecond |-> ZERO, inputs |-> <<>>]
NoIo == [rootLookups |-> 0, proofLookups |-> 0, keyReads |-> 0, posts |-> 0]

\* Promise.all, lines 228-233: the promise it returned, after check c settled
\* in ps. It rejects with the first rejection it is told of and fulfils once
\* every check has fulfilled.
PromiseAllLast(cur, ps, c) ==
    IF ps[c].state = "rejected" THEN ps[c]
    ELSE IF \A d \in CheckSet : ps[d].state = "fulfilled" THEN Fulfilled
    ELSE cur
PromiseAllSettled(cur, ps, c) ==
    IF \A d \in CheckSet : ps[d].state \in {"fulfilled", "rejected"} THEN Fulfilled
    ELSE cur
PromiseAll(cur, ps, c) ==
    IF cur.state # "pending" THEN cur
    ELSE IF ps[c].state = "rejected" THEN ps[c]
    ELSE IF \A d \in CheckSet : ps[d].state = "fulfilled" THEN Fulfilled
    ELSE cur

\* getBlockByBlockNumberL2(n): a block, or null.
Lookup(n) == IF n \in store THEN "block" ELSE "null"
RootOr(n) == IF n \in store THEN BlockRoot(n) ELSE ZERO

AllSettled == \A c \in CheckSet : promise[c].state \in {"fulfilled", "rejected"}

ExternalStates ==
    {<<TRUE, "true">>, <<TRUE, "false">>, <<TRUE, "unreachable">>, <<FALSE, "true">>}

Quiet ==
    /\ call = 0
    /\ promise = [c \in CheckSet |-> Idle]
    /\ outcome = [k \in 1..MaxCalls |-> Idle]
    /\ failed = <<>>
    /\ hr = [first |-> "none", second |-> "none"]
    /\ vp = IdleVp
    /\ io = NoIo

Init ==
    /\ tx \in {Stamp(t, fresh) : t \in WithFaults(Templates, 1), fresh \in BOOLEAN}
    /\ store \in SUBSET (0..MaxBlock)
    /\ \E e \in ExternalStates : keyReadable = e[1] /\ verifier = e[2]
    /\ Quiet

\* checkTransaction(transaction), lines 227-234: the four checks are called in
\* turn, each running up to its first await, then Promise.all is told of the
\* promises already settled, in the order of the array.
CheckTransaction ==
    /\ call < MaxCalls
    /\ call = 0 \/ AllSettled
    /\ LET type == tx.transactionType
           ps == [c \in CheckSet |->
                    CASE c = "hash" -> Settle(checkTransactionHash(tx))
                      [] c = "type" -> Settle(checkTransactionType(tx))
                      [] c = "root" -> IF type \in {1, 2, 3} THEN Pending ELSE Fulfilled
                      [] OTHER -> Pending]
           a1 == PromiseAll(Pending, ps, "hash")
           a2 == PromiseAll(a1, ps, "type")
       IN  /\ promise' = ps
           /\ outcome' = [outcome EXCEPT ![call + 1] = a2]
           /\ failed' = SelectSeq(<<"hash", "type">>, LAMBDA c : ps[c].state = "rejected")
           /\ hr' = [first |-> IF type \in {1, 2, 3} THEN "asked" ELSE "none",
                     second |-> IF type = 2 THEN "asked" ELSE "none"]
           /\ vp' = [IdleVp EXCEPT !.pc = "contract"]
           /\ io' = [NoIo EXCEPT !.rootLookups =
                        IF type = 2 THEN 2 ELSE IF type \in {1, 3} THEN 1 ELSE 0]
    /\ call' = call + 1
    /\ UNCHANGED <<tx, store, keyReadable, verifier>>

\* A check settles: its promise, the failures in order, and Promise.all.
SettleCheck(c, e) ==
    LET ps == [promise EXCEPT ![c] = Settle(e)]
    IN  /\ promise' = ps
        /\ failed' = IF e = NoError THEN failed ELSE Append(failed, c)
        /\ outcome' = [outcome EXCEPT ![call] = PromiseAll(outcome[call], ps, c)]

RootError ==
    TransactionError("The historic root in the transaction does not exist", HistoricRootCode)

\* checkHistoricRoot, lines 137-143 and 148-149: what it does once the
\* lookups it awaits have answered.
RootVerdictFirstOnly(type, first, second) ==
    IF first = "null" THEN RootError ELSE NoError
RootVerdict(type, first, second) ==
    IF type = 2
    THEN IF first = "null" \/ second = "null" THEN RootError ELSE NoError
    ELSE IF first = "null" THEN RootError ELSE NoError

\* The lookup of historicRootBlockNumberL2[0] made by checkHistoricRoot answers.
RootFirstAnswers ==
    /\ hr.first = "asked"
    /\ LET got == Lookup(tx.historicRootBlockNumberL2[1])
       IN  /\ hr' = [hr EXCEPT !.first = got]
           /\ IF hr.second = "asked"
              THEN UNCHANGED <<promise, failed, outcome>>
              ELSE SettleCheck("root", RootVerdict(tx.transactionType, got, hr.second))
    /\ UNCHANGED <<tx, store, keyReadable, verifier, call, vp, io>>

\* The lookup of historicRootBlockNumberL2[1] (DOUBLE_TRANSFER only) answers.
RootSecondAnswers ==
    /\ hr.second = "asked"
    /\ LET got == Lookup(tx.historicRootBlockNumberL2[2])
       IN  /\ hr' = [hr EXCEPT !.second = got]
           /\ IF hr.first = "asked"
              THEN UNCHANGED <<promise, failed, outcome>>
              ELSE SettleCheck("root", RootVerdict(tx.transactionType, hr.first, got))
    /\ UNCHANGED <<tx, store, keyReadable, verifier, call, vp, io>>

\* verifyProof, line 155: waitForContract answers; line 156 asks for the key.
ContractAnswers ==
    /\ vp.pc = "contract"
    /\ vp' = [vp EXCEPT !.pc = "key"]
    /\ io' = [io EXCEPT !.keyReads = @ + 1]
    /\ UNCHANGED <<tx, store, keyReadable, verifier, call, promise, outcome, failed, hr>>

\* Lines 156-164: the key read answers or fails; the first block is asked for.
KeyAnswers ==
    /\ vp.pc = "key"
    /\ IF keyReadable
       THEN /\ vp' = [vp EXCEPT !.pc = "first"]
            /\ io' = [io EXCEPT !.proofLookups = @ + 1]
            /\ UNCHANGED <<promise, failed, outcome>>
       ELSE /\ vp' = [vp EXCEPT !.pc = "done"]
            /\ SettleCheck("proof", TransportError("getVerificationKey"))
            /\ UNCHANGED io
    /\ UNCHANGED <<tx, store, keyReadable, verifier, call, hr>>

\* Lines 162-167: the first block answers (null becomes {root: ZERO}); the
\* second is asked for.
ProofFirstAnswers ==
    /\ vp.pc = "first"
    /\ vp' = [vp EXCEPT !.pc = "second",
                        !.rootFirst = RootOr(tx.historicRootBlockNumberL2[1])]
    /\ io' = [io EXCEPT !.proofLookups = @ + 1]
    /\ UNCHANGED <<tx, store, keyReadable, verifier, call, promise, outcome, failed, hr>>

\* Lines 165-222: the second block answers, the inputs are built and posted.
ProofSecondAnswers ==
    /\ vp.pc = "second"
    /\ LET second == RootOr(tx.historicRootBlockNumberL2[2])
           inputs == PublicInputs(tx, vp.rootFirst, second)
       IN  IF tx.transactionType \notin 0..3
           THEN /\ vp' = [vp EXCEPT !.pc = "done", !.rootSecond = second]
                /\ SettleCheck("proof",
                       TransactionError("Unknown transaction type", UnknownTypeCode))
                /\ UNCHANGED io
           ELSE IF HasUndefined(inputs)
           THEN /\ vp' = [vp EXCEPT !.pc = "done", !.rootSecond = second]
                /\ SettleCheck("proof", UndefinedInputError)
                /\ UNCHANGED io
           ELSE /\ vp' = [vp EXCEPT !.pc = "verify", !.rootSecond = second,
                                    !.inputs = inputs]
                /\ io' = [io EXCEPT !.posts = @ + 1]
                /\ UNCHANGED <<promise, failed, outcome>>
    /\ UNCHANGED <<tx, store, keyReadable, verifier, call, hr>>

\* Lines 215-224: what verifyProof does with the answer of the worker.
ProofVerdictCatchAll(answer) ==
    IF answer = "true" THEN NoError
    ELSE TransactionError("The proof did not verify", ProofInvalidCode)
ProofVerdict(answer) ==
    CASE answer = "true" -> NoError
      [] answer = "false" -> TransactionError("The proof did not verify", ProofInvalidCode)
      [] OTHER -> TransportError("verify")

VerifierAnswers ==
    /\ vp.pc = "verify"
    /\ vp' = [vp EXCEPT !.pc = "done"]
    /\ SettleCheck("proof", ProofVerdict(verifier))
    /\ UNCHANGED <<tx, store, keyReadable, verifier, call, hr, io>>

Next ==
    \/ CheckTransaction
    \/ RootFirstAnswers
    \/ RootSecondAnswers
    \/ ContractAnswers
    \/ KeyAnswers
    \/ ProofFirstAnswers
    \/ ProofSecondAnswers
    \/ VerifierAnswers

Spec == Init /\ [][Next]_vars

\* ------------------------------------------- the type check on its own
\* checkTransactionType applied to templates with up to MaxFaults fields
\* replaced.
InitType ==
    /\ tx \in {Stamp(t, TRUE) : t \in WithFaults(Templates, MaxFaults)}
    /\ store = {}
    /\ keyReadable = TRUE
    /\ verifier = "true"
    /\ Quiet

TypeCheck ==
    /\ promise["type"].state = "idle"
    /\ promise' = [promise EXCEPT !["type"] = Settle(checkTransactionType(tx))]
    /\ UNCHANGED <<tx, store, keyReadable, verifier, call, outcome, failed, hr, vp, io>>

SpecType == InitType /\ [][TypeCheck]_vars

\* --------------------------------------------- a block store that changes
\* The block store belongs to block production: a proposed block is stored,
\* a rolled-back block is deleted, at any moment of a call.
BlockStored ==
    /\ \E n \in (0..MaxBlock) \ store : store' = store \cup {n}
    /\ UNCHANGED <<tx, keyReadable, verifier, call, promise, outcome, failed, hr, vp, io>>

BlockDeleted ==
    /\ \E n \in store : store' = store \ {n}
    /\ UNCHANGED <<tx, keyReadable, verifier, call, promise, outcome, failed, hr, vp, io>>

NextStore ==
    \/ Next
    \/ BlockStored
    \/ BlockDeleted

SpecStore == Init /\ [][NextStore]_vars

\* ------------------------------------------------------------- claims
Done(k) == call = k /\ AllSettled
Result(k) == outcome[k]
Accepted(k) == outcome[k].state = "fulfilled"
RejectedWith(k, code) ==
    /\ outcome[k].state = "rejected"
    /\ outcome[k].error.name = "TransactionError"
    /\ outcome[k].error.code = code

\* The rows of the template table (section 4.2 of the specification).
TokenRule(t) == t.tokenType # 0 => (t.tokenId # ZERO \/ ~IsNumberZero(t.value))
FirstOnly(s, n) == Len(s) = n /\ s[1] # ZERO /\ \A i \in 2..n : s[i] = ZERO
RowHolds(t) ==
    /\ t.publicInputHash # ZERO
    /\ t.ercAddress # ZERO
    /\ ~AllZero(t.proof)
    /\ CASE t.transactionType = 0 ->
              /\ TokenRule(t)
              /\ t.recipientAddress = ZERO
              /\ FirstOnly(t.commitments, NumCommitments)
              /\ Len(t.nullifiers) = NumNullifiers /\ AllZero(t.nullifiers)
              /\ Len(t.compressedSecrets) = NumSecrets /\ AllZero(t.compressedSecrets)
              /\ t.historicRootBlockNumberL2 = <<0, 0>>
         [] t.transactionType = 1 ->
              /\ t.tokenId = ZERO /\ IsNumberZero(t.value)
              /\ t.recipientAddress = ZERO
              /\ FirstOnly(t.commitments, NumCommitments)
              /\ FirstOnly(t.nullifiers, NumNullifiers)
              /\ Len(t.compressedSecrets) = NumSecrets /\ ~AllZero(t.compressedSecrets)
         [] t.transactionType = 2 ->
              /\ t.tokenId = ZERO /\ IsNumberZero(t.value)
              /\ t.recipientAddress = ZERO
              /\ Len(t.commitments) = NumCommitments /\ ~SomeZero(t.commitments)
              /\ Len(t.nullifiers) = NumNullifiers /\ ~SomeZero(t.nullifiers)
              /\ Len(t.compressedSecrets) = NumSecrets /\ ~AllZero(t.compressedSecrets)
         [] t.transactionType = 3 ->
              /\ TokenRule(t)
              /\ t.recipientAddress # ZERO
              /\ AllZero(t.commitments)
              /\ FirstOnly(t.nullifiers, NumNullifiers)
              /\ Len(t.compressedSecrets) = NumSecrets /\ AllZero(t.compressedSecrets)
         [] OTHER -> FALSE

\* The historic blocks a transaction of its type must find.
RequiredBlocks(t) ==
    CASE t.transactionType \in {1, 3} -> {t.historicRootBlockNumberL2[1]}
      [] t.transactionType = 2 ->
           {t.historicRootBlockNumberL2[1], t.historicRootBlockNumberL2[2]}
      [] OTHER -> {}

DataModelLengths(t) ==
    /\ Len(t.commitments) = NumCommitments
    /\ Len(t.nullifiers) = NumNullifiers
    /\ Len(t.compressedSecrets) = NumSecrets

\* C1: checkTransaction accepts exactly when all four checks succeeded, it
\* rejects as soon as one of them failed, and a transaction of a known type
\* whose hash matches, which fits its template, whose required historic blocks
\* exist and which the verifier answered "verifies" for is accepted.
AcceptIffAllFour ==
    \A k \in 1..MaxCalls :
        /\ Done(k) =>
              (Accepted(k) <=> \A c \in CheckSet : promise[c].state = "fulfilled")
        /\ call = k /\ (\E c \in CheckSet : promise[c].state = "rejected")
              => outcome[k].state = "rejected"
        /\ call = k /\ Accepted(k) => \A c \in CheckSet : promise[c].state = "fulfilled"
        /\ ( /\ Done(k)
             /\ CheckHash(tx)
             /\ RowHolds(tx)
             /\ RequiredBlocks(tx) \subseteq store
             /\ io.posts = 1 /\ verifier = "true" ) => Accepted(k)

DoubleTransferAccepted ==
    /\ Done(1) /\ Accepted(1)
    /\ tx.transactionType = 2
    /\ io.posts = 1

\* C3: for each known type checkTransactionType succeeds exactly when the
\* row of the template table holds, and otherwise fails with TypeInconsistent
\* naming the declared type.
TypeCheckMatchesTable ==
    (promise["type"].state # "idle" /\ tx.transactionType \in 0..3) =>
        IF RowHolds(tx)
        THEN promise["type"] = Fulfilled
        ELSE promise["type"] = Rejected(TypeInconsistent(tx.transactionType))

\* C4: every accepted transaction has exactly 2 commitments, 2 nullifiers and
\* 8 compressedSecrets slots, and a transaction of a known type with any
\* other length fails the type check with TypeInconsistent.
AcceptedHasExactSlots ==
    \A k \in 1..MaxCalls :
        /\ Accepted(k) => DataModelLengths(tx)
        /\ (call = k /\ tx.transactionType \in 0..3 /\ ~DataModelLengths(tx)) =>
              promise["type"] = Rejected(TypeInconsistent(tx.transactionType))

\* C2 as stated: a transaction of an unknown type is always rejected with
\* UnknownTransactionType and no other check is attempted (no block-store
\* lookup, no verification-key read, no verifier request).
UnknownTypeNothingElse ==
    (call >= 1 /\ tx.transactionType \notin 0..3) =>
        /\ RejectedWith(call, UnknownTypeCode)
        /\ io = NoIo

\* C2 as amended: a transaction of an unknown type is always rejected, at
\* once; the error is UnknownTransactionType when the stored hash matches and
\* HashMismatch when it does not; checkHistoricRoot looks nothing up and no
\* verifier request is made, while verifyProof still reads the verification
\* key and, when that read answers, looks both blocks up before it fails with
\* UnknownTransactionType itself.
UnknownTypeRejected ==
    (call >= 1 /\ tx.transactionType \notin 0..3) =>
        /\ RejectedWith(call, IF CheckHash(tx) THEN UnknownTypeCode ELSE HashMismatchCode)
        /\ promise["type"].error.code = UnknownTypeCode
        /\ promise["root"] = Fulfilled
        /\ io.rootLookups = 0
        /\ io.posts = 0
        /\ vp.pc = "done" =>
              /\ io.keyReads = 1
              /\ io.proofLookups = IF keyReadable THEN 2 ELSE 0
              /\ keyReadable => promise["proof"].error.code = UnknownTypeCode

UnknownTypeAfterLookups ==
    /\ tx.transactionType \notin 0..3
    /\ CheckHash(tx)
    /\ RejectedWith(1, UnknownTypeCode)
    /\ vp.pc = "done"
    /\ io.keyReads = 1
    /\ io.proofLookups = 2

\* C5: checkHistoricRoot fails with HistoricRootNotFound exactly when a
\* SINGLE_TRANSFER or WITHDRAW refers first to a block the store does not hold,
\* or a DOUBLE_TRANSFER refers to at least one such block; for a DEPOSIT it
\* succeeds without a lookup, and for SINGLE_TRANSFER and WITHDRAW the second
\* reference is never looked up.
HistoricRootExact ==
    LET type == tx.transactionType
        first == tx.historicRootBlockNumberL2[1]
        second == tx.historicRootBlockNumberL2[2]
        missing == \/ type \in {1, 3} /\ first \notin store
                   \/ type = 2 /\ (first \notin store \/ second \notin store)
    IN  (call >= 1 /\ promise["root"].state # "pending") =>
            /\ promise["root"] = IF missing THEN Rejected(RootError) ELSE Fulfilled
            /\ type = 0 => io.rootLookups = 0
            /\ type \in {1, 3} => io.rootLookups = 1 /\ hr.second = "none"

RootOneOfTwoMissing ==
    /\ tx.transactionType = 2
    /\ tx.historicRootBlockNumberL2[1] \in store
    /\ tx.historicRootBlockNumberL2[2] \notin store
    /\ promise["root"] = Rejected(RootError)
    /\ io.rootLookups = 2

\* C6 as stated: the vector posted to the verifier has, for every transaction
\* of each type, exactly the elements and the order of section 4.4: a DEPOSIT
\* [ercAddress, tokenId, value, commitments[0]]; a SINGLE_TRANSFER [ercAddress,
\* commitments[0], nullifiers[0] truncated, first root, 8 truncated secrets]; a
\* DOUBLE_TRANSFER [ercAddress, ercAddress, commitments[0], commitments[1],
\* nullifiers[0] and [1] truncated, first root, second root, 8 truncated
\* secrets]; a WITHDRAW [ercAddress, tokenId, value, nullifiers[0] truncated,
\* recipientAddress, first root]. A slot the transaction lacks is Undefined.
Low31(w) == IF w = Undefined THEN Undefined ELSE <<0, w[2]>>
FirstRoot == IF tx.historicRootBlockNumberL2[1] \in store
             THEN BlockRoot(tx.historicRootBlockNumberL2[1]) ELSE ZERO
SecondRoot == IF tx.historicRootBlockNumberL2[2] \in store
              THEN BlockRoot(tx.historicRootBlockNumberL2[2]) ELSE ZERO
EightSecrets == [i \in 1..NumSecrets |-> Low31(At(tx.compressedSecrets, i - 1))]
Layout ==
    CASE tx.transactionType = 0 ->
           <<tx.ercAddress, tx.tokenId, tx.value, At(tx.commitments, 0)>>
      [] tx.transactionType = 1 ->
           <<tx.ercAddress, At(tx.commitments, 0), Low31(At(tx.nullifiers, 0)), FirstRoot>>
             \o EightSecrets
      [] tx.transactionType = 2 ->
           <<tx.ercAddress, tx.ercAddress,
             At(tx.commitments, 0), At(tx.commitments, 1),
             Low31(At(tx.nullifiers, 0)), Low31(At(tx.nullifiers, 1)),
             FirstRoot, SecondRoot>>
             \o EightSecrets
      [] OTHER ->
           <<tx.ercAddress, tx.tokenId, tx.value, Low31(At(tx.nullifiers, 0)),
             tx.recipientAddress, FirstRoot>>

InputsAlwaysInLayout == io.posts = 1 => vp.inputs = Layout

\* C6 as amended: the posted vector has exactly that layout for every DEPOSIT
\* and WITHDRAW, and for every transfer that has the 2 commitments, 2
\* nullifiers and 8 compressedSecrets of the data model; a transfer of other
\* lengths is posted with every compressed secret it has and, if DOUBLE, every
\* commitment and nullifier it has, in the same order. The DEPOSIT of
\* ercAddress 0x1, tokenId 0x3, value 5, commitments[0] 0x2 gives
\* [0x1, 0x3, 5, 0x2].
AllSecrets ==
    [i \in 1..Len(tx.compressedSecrets) |-> Low31(tx.compressedSecrets[i])]
InputsInOrder ==
    io.posts = 1 =>
        /\ (tx.transactionType \in {0, 3} \/ DataModelLengths(tx)) => vp.inputs = Layout
        /\ tx.transactionType = 1 =>
              vp.inputs = <<tx.ercAddress, tx.commitments[1],
                            Low31(tx.nullifiers[1]), FirstRoot>> \o AllSecrets
        /\ tx.transactionType = 2 =>
              vp.inputs = <<tx.ercAddress, tx.ercAddress>>
                            \o tx.commitments
                            \o [i \in 1..Len(tx.nullifiers) |-> Low31(tx.nullifiers[i])]
                            \o <<FirstRoot, SecondRoot>>
                            \o AllSecrets
        /\ ( /\ tx.transactionType = 0
             /\ tx.ercAddress = W(1) /\ tx.tokenId = W(3)
             /\ tx.value = W(5) /\ tx.commitments[1] = W(2) )
              => vp.inputs = <<W(1), W(3), W(5), W(2)>>

DoubleTransferPosted ==
    /\ io.posts = 1
    /\ tx.transactionType = 2
    /\ DataModelLengths(tx)
    /\ Len(vp.inputs) = 8 + NumSecrets
    /\ vp.inputs[1] = vp.inputs[2]
    /\ vp.inputs[3] # vp.inputs[4]

\* C7: verifyProof fails with ProofInvalid exactly when the verifier answered
\* verifies=false; a transaction that is well formed otherwise is then
\* rejected with ProofInvalid; at most one key read and one verifier request
\* are made per call, and a call whose key read or verifier request fails
\* rejects with an error that is not ProofInvalid.
ProofInvalidExact ==
    \A k \in 1..MaxCalls : call = k =>
        /\ (promise["proof"].state = "rejected"
              /\ promise["proof"].error.code = ProofInvalidCode)
              <=> (vp.pc = "done" /\ io.posts = 1 /\ verifier = "false")
        /\ ( /\ Done(k) /\ io.posts = 1 /\ verifier = "false"
             /\ CheckHash(tx) /\ RowHolds(tx) /\ RequiredBlocks(tx) \subseteq store )
              => RejectedWith(k, ProofInvalidCode)
        /\ io.posts <= 1 /\ io.keyReads <= 1
        /\ (vp.pc = "done" /\ (~keyReadable \/ (io.posts = 1 /\ verifier = "unreachable")))
              => /\ promise["proof"].state = "rejected"
                 /\ promise["proof"].error.name # "TransactionError"
                 /\ outcome[k].state = "rejected"
                 /\ outcome[k].error.code # ProofInvalidCode

ProofInvalidSurfaced ==
    /\ Done(1)
    /\ RowHolds(tx) /\ CheckHash(tx)
    /\ verifier = "false"
    /\ RejectedWith(1, ProofInvalidCode)

\* C8 as stated: two calls on the same transaction and the same external
\* state end alike, both accepting or both rejecting with the same error.
SameOutcomeTwice == Done(2) => outcome[1] = outcome[2]

\* C8 as amended: two calls on the same transaction and the same external
\* state both accept or both reject; they reject with the same error unless
\* the hash and the type check pass and both checkHistoricRoot and verifyProof
\* fail, in which case each call rejects with the error of either.
SameVerdictTwice ==
    Done(2) =>
        /\ Accepted(1) <=> Accepted(2)
        /\ outcome[1] # outcome[2] =>
              /\ promise["hash"] = Fulfilled
              /\ promise["type"] = Fulfilled
              /\ promise["root"].state = "rejected"
              /\ promise["proof"].state = "rejected"
              /\ {outcome[1], outcome[2]} = {promise["root"], promise["proof"]}

TwoCallsTwoErrors ==
    /\ Done(2)
    /\ RejectedWith(1, HistoricRootCode)
    /\ RejectedWith(2, ProofInvalidCode)

\* C9: the four checks are all started; a failure of one does not stop the
\* others, which make every external request they would make alone and can
\* always take their next step; the caller receives the error of the check
\* that failed first in time, and a failure of any check rejects the call.
AsyncStep ==
    \/ RootFirstAnswers
    \/ RootSecondAnswers
    \/ ContractAnswers
    \/ KeyAnswers
    \/ ProofFirstAnswers
    \/ ProofSecondAnswers
    \/ VerifierAnswers

FirstFailureSurfaces ==
    \A k \in 1..MaxCalls : call = k =>
        /\ \A c \in CheckSet : promise[c].state # "idle"
        /\ ~AllSettled => ENABLED AsyncStep
        /\ failed # <<>> => outcome[k] = promise[Head(failed)]
        /\ failed = <<>> => outcome[k].state # "rejected"
        /\ Done(k) =>
              /\ io.rootLookups = Cardinality({i \in 1..2 :
                      \/ tx.transactionType = 2
                      \/ tx.transactionType \in {1, 3} /\ i = 1})
              /\ io.keyReads = 1
              /\ io.proofLookups = IF keyReadable THEN 2 ELSE 0
              /\ io.posts = IF /\ keyReadable
                               /\ tx.transactionType \in 0..3
                               /\ ~HasUndefined(PublicInputs(tx, ZERO, ZERO))
                            THEN 1 ELSE 0

OthersRanOn ==
    /\ Done(1)
    /\ failed = <<"hash", "root", "proof">>
    /\ RejectedWith(1, HashMismatchCode)
    /\ io.posts = 1
    /\ io.rootLookups = 1

\* C10: in the vector posted for a SINGLE_TRANSFER, a DOUBLE_TRANSFER or a
\* WITHDRAW every nullifier and every compressed secret keeps its low 31 bytes
\* byte for byte and has lost its most-significant byte (00 in the 32 bytes
\* posted), while ercAddress, the commitments, tokenId, value,
\* recipientAddress and the roots are posted whole, top byte included.
\* The 32 bytes of a value, most-significant first; a number of the model is
\* below 256^4, so every byte of it above the low four is 00.
BytesOf(n, k) ==
    [i \in 1..k |-> IF k - i > 3 THEN 0 ELSE (n \div (256 ^ (k - i))) % 256]
ToBytes(w, byteLength) == <<w[1]>> \o BytesOf(w[2], byteLength - 1)

TopByteRemoved(v, w) ==
    LET posted == ToBytes(v, WordBytes)
        original == ToBytes(w, WordBytes)
    IN  /\ posted[1] = 0
        /\ SubSeq(posted, 2, WordBytes) = SubSeq(original, 2, WordBytes)

Whole(v, w) == ToBytes(v, WordBytes) = ToBytes(w, WordBytes)

RequiredRootsFromStore ==
    \A k \in 1..MaxCalls :
        (call = k /\ Accepted(k) /\ tx.transactionType \in {1, 2, 3}) =>
            /\ vp.rootFirst = BlockRoot(tx.historicRootBlockNumberL2[1])
            /\ vp.rootFirst # ZERO
            /\ vp.rootFirst \in {vp.inputs[i] : i \in 1..Len(vp.inputs)}
            /\ tx.transactionType = 2 =>
                  /\ vp.rootSecond = BlockRoot(tx.historicRootBlockNumberL2[2])
                  /\ vp.rootSecond # ZERO
                  /\ vp.rootSecond \in {vp.inputs[i] : i \in 1..Len(vp.inputs)}

====
